---------------------------- MODULE Spec2Model ----------------------------
(***************************************************************************)
(* A model of src/http/sonarr_client.rs: the SonarrClient handle, its five *)
(* operations and the remote service they talk to.                         *)
(*                                                                         *)
(* Text (URLs, API keys) is a sequence of one-character strings or of byte *)
(* values, so that parsing and validation are computed, not assumed.  A    *)
(* JSON value is a tagged tuple (<<"n", 3>>, <<"s", "a">>, <<"b", TRUE>>,  *)
(* <<"null">>), a JSON object is a record of such values whose DOMAIN is   *)
(* the set of keys present on the wire.                                    *)
(***************************************************************************)
EXTENDS Integers, Sequences, FiniteSets

VARIABLES
    client,     \* <<>> before construction, <<handle>> after SonarrClient::new succeeded
    newCall,    \* the last call of SonarrClient::new: its arguments and its result
    remote,     \* the service: episode id -> <<>> (no such episode) or <<json object>>
    calls,      \* caller -> the state of its call in progress (an async fn's frame)
    hist,       \* caller -> what the service saw of that call (history, for the properties)
    ncalls,     \* number of calls started
    nwrites     \* number of writes made by the other writer

vars == <<client, newCall, remote, calls, hist, ncalls, nwrites>>

\* ------------------------------------------------------------------ bounds

\* Calls the callers may start, all together.
MaxCalls == 2
\* Writes the other writer of the service may make.
MaxOtherWrites == 1

Callers == {"c1", "c2"}

\* ------------------------------------------------------------------ text

Alpha == {"h", "t", "p", "s", "x"}
Digit == {"0", "1", "2", "3", "4", "5", "6", "7", "8", "9"}

RECURSIVE IndexOf(_, _, _)
\* The first position >= i of character ch in s, 0 when there is none.
IndexOf(s, ch, i) ==
    IF i > Len(s) THEN 0
    ELSE IF s[i] = ch THEN i
    ELSE IndexOf(s, ch, i + 1)

RECURSIVE SkipSlashes(_)
SkipSlashes(s) ==
    IF s # <<>> /\ Head(s) = "/" THEN SkipSlashes(Tail(s)) ELSE s

RECURSIVE SplitPath(_)
\* "a/b/" -> <<"a", "b", "">>: the segments between the slashes.
SplitPath(s) ==
    LET k == IndexOf(s, "/", 1) IN
    IF k = 0 THEN <<s>>
    ELSE <<SubSeq(s, 1, k - 1)>> \o SplitPath(SubSeq(s, k + 1, Len(s)))

Front(s) == SubSeq(s, 1, Len(s) - 1)

DigitOf(d) ==
    CASE d = 0 -> "0" [] d = 1 -> "1" [] d = 2 -> "2" [] d = 3 -> "3"
      [] d = 4 -> "4" [] d = 5 -> "5" [] d = 6 -> "6" [] d = 7 -> "7"
      [] d = 8 -> "8" [] d = 9 -> "9"

RECURSIVE to_string(_)
\* u64::to_string: the decimal digits, most significant first.
to_string(n) ==
    IF n < 10 THEN <<DigitOf(n)>> ELSE to_string(n \div 10) \o <<DigitOf(n % 10)>>

\* ------------------------------------------------------------------ Url

Err(kind) == [ok |-> FALSE, kind |-> kind]
Ok(v) == [ok |-> TRUE, v |-> <<v>>]
Val(r) == r.v[1]

SpecialSchemes == { <<"h", "t", "t", "p">>, <<"h", "t", "t", "p", "s">> }

ValidScheme(s) ==
    /\ s # <<>>
    /\ s[1] \in Alpha
    /\ \A i \in 1..Len(s) : s[i] \in Alpha \cup Digit \cup {"+", "-", "."}

\* Url::parse on an absolute-URL string: a scheme is required; a special
\* scheme (http, https) needs a host; any other scheme followed by something
\* that does not start with "/" gives a URL that cannot be a base.
UrlParse(s) ==
    LET k == IndexOf(s, ":", 1)
        scheme == SubSeq(s, 1, k - 1)
        rest == SubSeq(s, k + 1, Len(s))
    IN  IF k = 0 \/ ~ValidScheme(scheme) THEN Err("InvalidUrl")
        ELSE IF scheme \in SpecialSchemes
        THEN LET r == SkipSlashes(rest)
                 j == IndexOf(r, "/", 1)
                 host == IF j = 0 THEN r ELSE SubSeq(r, 1, j - 1)
                 path == IF j = 0 THEN <<>> ELSE SubSeq(r, j + 1, Len(r))
             IN  IF host = <<>> THEN Err("InvalidUrl")
                 ELSE Ok([scheme |-> scheme, host |-> host,
                          path |-> SplitPath(path), cannot_be_a_base |-> FALSE])
        ELSE IF Len(rest) >= 2 /\ rest[1] = "/" /\ rest[2] = "/"
        THEN LET r == SubSeq(rest, 3, Len(rest))
                 j == IndexOf(r, "/", 1)
                 host == IF j = 0 THEN r ELSE SubSeq(r, 1, j - 1)
                 path == IF j = 0 THEN <<>> ELSE SubSeq(r, j + 1, Len(r))
             IN  Ok([scheme |-> scheme, host |-> host,
                     path |-> SplitPath(path), cannot_be_a_base |-> FALSE])
        ELSE IF rest # <<>> /\ Head(rest) = "/"
        THEN Ok([scheme |-> scheme, host |-> <<>>,
                 path |-> SplitPath(Tail(rest)), cannot_be_a_base |-> FALSE])
        ELSE Ok([scheme |-> scheme, host |-> <<>>,
                 path |-> <<rest>>, cannot_be_a_base |-> TRUE])

\* Url::set_path with an absolute path: replaces the path of a hierarchical
\* URL; on a URL that cannot be a base the text becomes its opaque path (the
\* leading slash percent-encoded) and the URL still cannot be a base.
SetPath(u, p) ==
    IF u.cannot_be_a_base
    THEN [u EXCEPT !.path = << <<"%", "2", "F">> \o Tail(p) >>]
    ELSE [u EXCEPT !.path = SplitPath(Tail(p))]

\* Url::join with a relative reference made of path segments: the last
\* segment of the base is replaced; a base that cannot be a base refuses.
UrlJoin(u, rel) ==
    IF u.cannot_be_a_base THEN Err("UrlJoin")
    ELSE Ok([u EXCEPT !.path = Front(u.path) \o SplitPath(rel)])

ApiRoot == <<"/", "a", "p", "i", "/", "v", "3", "/">>

\* ------------------------------------------------------------------ headers

\* DEL let through.
ValidHeaderByteWithDel(b) == b >= 32 \/ b = 9

\* HeaderValue::from_str accepts the bytes of a visible character, of a
\* space, of a horizontal tab and of anything above ASCII.
ValidHeaderByte(b) == (b >= 32 /\ b # 127) \/ b = 9

HeaderValueFromStr(key) ==
    IF \A i \in 1..Len(key) : ValidHeaderByte(key[i])
    THEN Ok([bytes |-> key, sensitive |-> FALSE])
    ELSE Err("InvalidCredential")

\* HeaderMap::insert: the entry of that name is replaced, or added.
HeaderInsert(map, name, value) ==
    SelectSeq(map, LAMBDA e : e.name # name) \o <<[name |-> name, value |-> value]>>

HeaderCount(map, name) == Len(SelectSeq(map, LAMBDA e : e.name = name))

\* The header under another name.
AuthHeadersWrongName(api_key) ==
    LET hv == HeaderValueFromStr(api_key) IN
    IF ~hv.ok THEN hv
    ELSE Ok(HeaderInsert(<<>>, "api-key", [Val(hv) EXCEPT !.sensitive = TRUE]))

\* auth_headers: one entry, x-api-key, marked sensitive.
auth_headers(api_key) ==
    LET hv == HeaderValueFromStr(api_key) IN
    IF ~hv.ok THEN hv
    ELSE Ok(HeaderInsert(<<>>, "x-api-key", [Val(hv) EXCEPT !.sensitive = TRUE]))

\* ------------------------------------------------------------------ JSON

N(n) == <<"n", n>>
S(s) == <<"s", s>>
B(b) == <<"b", b>>
Null == <<"null">>

Has(o, k) == k \in DOMAIN o
\* An unsigned integer field (u64, u32): a JSON number that is not negative.
\* (The upper limits 2^64 - 1 and 2^32 - 1 lie beyond the numbers of the model.)
IsUnsigned(o, k) == Has(o, k) /\ o[k][1] = "n" /\ o[k][2] >= 0
IsString(o, k) == Has(o, k) /\ o[k][1] = "s"
IsBool(o, k) == Has(o, k) /\ o[k][1] = "b"
\* An Option<u64> field: a missing key and null both decode to None.
IsOptUnsigned(o, k) == ~Has(o, k) \/ o[k] = Null \/ IsUnsigned(o, k)
OptUnsigned(o, k) == IF ~Has(o, k) \/ o[k] = Null THEN <<>> ELSE <<o[k][2]>>

\* serde's derived Deserialize of EpisodeInfo (rename_all = "camelCase"):
\* the six required fields must be there with their types, the optional one
\* may be missing or null, and keys the struct does not name are skipped.
DeserializeEpisodeInfo(o) ==
    IF /\ IsUnsigned(o, "id")
       /\ IsUnsigned(o, "seriesId")
       /\ IsOptUnsigned(o, "episodeFileId")
       /\ IsString(o, "title")
       /\ IsUnsigned(o, "seasonNumber")
       /\ IsUnsigned(o, "episodeNumber")
       /\ IsBool(o, "monitored")
    THEN Ok([id |-> o.id[2],
             series_id |-> o.seriesId[2],
             episode_file_id |-> OptUnsigned(o, "episodeFileId"),
             title |-> o.title[2],
             season_number |-> o.seasonNumber[2],
             episode_number |-> o.episodeNumber[2],
             monitored |-> o.monitored[2]])
    ELSE Err("DecodeError")

\* Season and episode number written under each other's key.
SerializeEpisodeInfoSwapped(e) ==
    [id |-> N(e.id),
     seriesId |-> N(e.series_id),
     episodeFileId |-> IF e.episode_file_id = <<>> THEN Null ELSE N(e.episode_file_id[1]),
     title |-> S(e.title),
     seasonNumber |-> N(e.episode_number),
     episodeNumber |-> N(e.season_number),
     monitored |-> B(e.monitored)]

\* serde's derived Serialize of EpisodeInfo: the seven fields, None as null.
SerializeEpisodeInfo(e) ==
    [id |-> N(e.id),
     seriesId |-> N(e.series_id),
     episodeFileId |-> IF e.episode_file_id = <<>> THEN Null ELSE N(e.episode_file_id[1]),
     title |-> S(e.title),
     seasonNumber |-> N(e.season_number),
     episodeNumber |-> N(e.episode_number),
     monitored |-> B(e.monitored)]

\* Deserialize of SeriesInfo: title, id, and tags: Option<Vec<u64>>.
DeserializeSeriesInfo(o) ==
    IF /\ IsString(o, "title")
       /\ IsUnsigned(o, "id")
       /\ \/ ~Has(o, "tags")
          \/ o.tags = Null
          \/ o.tags[1] = "a" /\ \A i \in 1..Len(o.tags[2]) : o.tags[2][i] >= 0
    THEN Ok([title |-> o.title[2], id |-> o.id[2],
             tags |-> IF ~Has(o, "tags") \/ o.tags = Null THEN <<>> ELSE <<o.tags[2]>>])
    ELSE Err("DecodeError")

\* Deserialize of Tag: label and id.
DeserializeTag(o) ==
    IF IsString(o, "label") /\ IsUnsigned(o, "id")
    THEN Ok([label |-> o.label[2], id |-> o.id[2]])
    ELSE Err("DecodeError")

\* A response body: <<"obj", object>>, <<"arr", sequence of objects>> or
\* <<"text">> (not JSON).  Response::json::<T>() for T = EpisodeInfo and for
\* T = Vec<_>: the first failure is the result, nothing is defaulted.
JsonEpisode(body) ==
    IF body[1] = "obj" THEN DeserializeEpisodeInfo(body[2]) ELSE Err("DecodeError")

\* The Deserialize of the element type T of a Vec<T>.
Deserialize(T, o) ==
    CASE T = "SeriesInfo" -> DeserializeSeriesInfo(o)
      [] T = "Tag" -> DeserializeTag(o)
      [] T = "EpisodeInfo" -> DeserializeEpisodeInfo(o)

JsonVec(body, T) ==
    IF body[1] = "arr" /\ \A i \in 1..Len(body[2]) : Deserialize(T, body[2][i]).ok
    THEN Ok([i \in 1..Len(body[2]) |-> Val(Deserialize(T, body[2][i]))])
    ELSE Err("DecodeError")

\* ------------------------------------------------------------------ the client handle

\* SonarrClient::new: parse the URL, force the path to the API root, build
\* the default headers, build the transport.  build_ok is the outcome of
\* ClientBuilder::build, which the environment decides.
new(base_url, api_key, build_ok) ==
    LET u == UrlParse(base_url) IN
    IF ~u.ok THEN u
    ELSE LET h == auth_headers(api_key) IN
         IF ~h.ok THEN h
         ELSE IF ~build_ok THEN Err("BuildError")
         ELSE Ok([base_url |-> SetPath(Val(u), ApiRoot), default_headers |-> Val(h)])

\* ------------------------------------------------------------------ requests

ContentTypeJson ==
    [name |-> "content-type",
     value |-> [bytes |-> <<97, 112, 112, 108, 105, 99, 97, 116, 105, 111, 110,
                            47, 106, 115, 111, 110>>, sensitive |-> FALSE]]

\* RequestBuilder: client.get(url), .query(pairs), client.delete(url),
\* client.put(url).json(value).
GetRequest(url, query) ==
    [method |-> "GET", url |-> url, query |-> query, headers |-> <<>>, body |-> <<>>]
DeleteRequest(url) ==
    [method |-> "DELETE", url |-> url, query |-> <<>>, headers |-> <<>>, body |-> <<>>]
PutJsonRequest(url, json) ==
    [method |-> "PUT", url |-> url, query |-> <<>>, headers |-> <<ContentTypeJson>>,
     body |-> <<json>>]

RECURSIVE MergeDefaults(_, _)
\* The transport adds each default header the request does not already name.
MergeDefaults(defaults, headers) ==
    IF defaults = <<>> THEN headers
    ELSE LET d == Head(defaults)
             h == IF HeaderCount(headers, d.name) = 0 THEN Append(headers, d) ELSE headers
         IN  MergeDefaults(Tail(defaults), h)

\* send(): the request as it leaves the client.
Execute(cl, req) == [req EXCEPT !.headers = MergeDefaults(cl.default_headers, req.headers)]

\* ------------------------------------------------------------------ responses

TransportFailed == [transport_ok |-> FALSE, status |-> 0, body |-> <<"text">>]
Response(status, body) == [transport_ok |-> TRUE, status |-> status, body |-> body]

\* ResponseExt::handle_error: a response outside 2xx becomes an error.
handle_error(resp) ==
    IF resp.status >= 200 /\ resp.status <= 299 THEN Ok(resp) ELSE Err("HttpStatusError")

\* .send().await?.handle_error().await?
Received(resp) ==
    IF ~resp.transport_ok THEN Err("TransportError") ELSE handle_error(resp)

\* ------------------------------------------------------------------ state

EpisodeIds == {1, 12}
SeriesIds == {3}
FileIds == {7}
ProviderIds == { <<"8", "1">> }

\* What the service may hold for episode 1 when the client is built: a
\* record of the seven fields, one without a file (no episodeFileId key)
\* and with a field more, and one whose season number is no u32.
EpisodeSeven ==
    [id |-> N(1), seriesId |-> N(3), episodeFileId |-> N(7), title |-> S("a"),
     seasonNumber |-> N(1), episodeNumber |-> N(2), monitored |-> B(TRUE)]
EpisodeFull ==
    [id |-> N(1), seriesId |-> N(3), title |-> S("a"),
     seasonNumber |-> N(1), episodeNumber |-> N(2), monitored |-> B(TRUE),
     airDate |-> S("d1")]
EpisodeUndecodable ==
    [id |-> N(1), seriesId |-> N(3), episodeFileId |-> N(7), title |-> S("a"),
     seasonNumber |-> N(0 - 1), episodeNumber |-> N(2), monitored |-> B(TRUE)]
InitialEpisodes == {EpisodeSeven, EpisodeFull, EpisodeUndecodable}

BaseUrls ==
    { <<"h", "t", "t", "p", ":", "/", "/", "h", "/", "x">>,     \* http://h/x
      <<"h", ":", "8">>,                                        \* h:8
      <<"h", "/", "x">>,                                        \* h/x
      <<"h", "t", "t", "p", ":", "/", "/">> }                   \* http://

\* API keys, as bytes: one that a header value accepts (letters, a digit and
\* a horizontal tab) and two that it refuses.
ApiKeys ==
    { <<107, 9, 49>>,   \* "k<TAB>1"
      <<107, 10>>,      \* "k<LF>"
      <<127>> }         \* "<DEL>"

IdleFrame ==
    [pc |-> "idle", op |-> "none", id |-> 0, url |-> <<>>, sent |-> <<>>, resp |-> <<>>,
     episode |-> <<>>, result |-> "none", value |-> <<>>]
\* answers: the responses delivered to the call's requests, in order;
\* pre: the episode as it was when the call's GET was answered; post: the episode right
\* after the call's PUT was stored; between: the episode as another writer
\* last stored it after that GET and before the PUT was answered; after:
\* another writer has stored the episode since the PUT was answered.
NoHistory == [answers |-> <<>>, pre |-> <<>>, between |-> <<>>, post |-> <<>>, after |-> FALSE]

Init ==
    /\ client = <<>>
    /\ newCall = [base_url |-> <<>>, api_key |-> <<>>, result |-> "none"]
    /\ \E e \in InitialEpisodes : remote = [i \in EpisodeIds |-> IF i = 1 THEN <<e>> ELSE <<>>]
    /\ calls = [c \in Callers |-> IdleFrame]
    /\ hist = [c \in Callers |-> NoHistory]
    /\ ncalls = 0
    /\ nwrites = 0

New(base_url, api_key, build_ok) ==
    /\ client = <<>>
    /\ LET r == new(base_url, api_key, build_ok) IN
       /\ client' = IF r.ok THEN <<Val(r)>> ELSE <<>>
       /\ newCall' = [base_url |-> base_url, api_key |-> api_key,
                      result |-> IF r.ok THEN "Ok" ELSE r.kind]
    /\ UNCHANGED <<remote, calls, hist, ncalls, nwrites>>

\* ------------------------------------------------------------------ operations

SeriesPath == <<"s", "e", "r", "i", "e", "s">>
TagPath == <<"t", "a", "g">>
EpisodePath == <<"e", "p", "i", "s", "o", "d", "e">>
EpisodeDir == EpisodePath \o <<"/">>
EpisodeFileDir == <<"e", "p", "i", "s", "o", "d", "e", "f", "i", "l", "e", "/">>

Handle == client[1]
CanCall(c) == client # <<>> /\ calls[c].pc = "idle" /\ ncalls < MaxCalls

\* base.join(dir)?.join(&id.to_string())?
JoinItem(base, dir, id) ==
    LET d == UrlJoin(base, dir) IN
    IF ~d.ok THEN d ELSE UrlJoin(Val(d), to_string(id))

\* The request sent a second time (a retry).
StartedWithRetry(op, id, url, req) ==
    IF ~url.ok
    THEN [IdleFrame EXCEPT !.pc = "done", !.op = op, !.id = id, !.result = url.kind]
    ELSE [IdleFrame EXCEPT !.pc = "wait", !.op = op, !.id = id, !.url = <<Val(url)>>,
                           !.sent = <<Execute(Handle, req), Execute(Handle, req)>>]

\* The frame after the first lines of an operation: the URL did not join
\* and the operation has returned, or the request is on its way.
Started(op, id, url, req) ==
    IF ~url.ok
    THEN [IdleFrame EXCEPT !.pc = "done", !.op = op, !.id = id, !.result = url.kind]
    ELSE [IdleFrame EXCEPT !.pc = "wait", !.op = op, !.id = id, !.url = <<Val(url)>>,
                           !.sent = <<Execute(Handle, req)>>]

Start(c, frame) ==
    /\ calls' = [calls EXCEPT ![c] = frame]
    /\ hist' = [hist EXCEPT ![c] = NoHistory]
    /\ ncalls' = ncalls + 1
    /\ UNCHANGED <<client, newCall, remote, nwrites>>

Finish(c, result, value) ==
    /\ calls' = [calls EXCEPT ![c].pc = "done", ![c].result = result, ![c].value = value]
    /\ UNCHANGED <<client, newCall, remote, hist, ncalls, nwrites>>

Ready(c, op) == calls[c].pc = "ready" /\ calls[c].op = op
Resp(c) == calls[c].resp[1]

\* A decode failure replaced by the empty list (unwrap_or_default).
VecOutcomeOrDefault(resp, T) ==
    LET r == Received(resp) IN
    IF ~r.ok THEN r
    ELSE IF JsonVec(Val(r).body, T).ok THEN JsonVec(Val(r).body, T) ELSE Ok(<<>>)

\* .send().await?.handle_error().await?.json().await? into a Vec<T>
VecOutcome(resp, T) ==
    LET r == Received(resp) IN
    IF ~r.ok THEN r ELSE JsonVec(Val(r).body, T)

\* A failed read replaced by a default record instead of being returned.
EpisodeOutcomeOrDefault(resp) ==
    LET r == Received(resp)
        d == [id |-> 0, series_id |-> 0, episode_file_id |-> <<>>, title |-> "",
              season_number |-> 0, episode_number |-> 0, monitored |-> FALSE]
    IN  IF r.ok /\ JsonEpisode(Val(r).body).ok THEN JsonEpisode(Val(r).body) ELSE Ok(d)

\* .send().await?.handle_error().await?.json().await? into an EpisodeInfo
EpisodeOutcome(resp) ==
    LET r == Received(resp) IN
    IF ~r.ok THEN r ELSE JsonEpisode(Val(r).body)

\* The response dropped without a look at it.
UnitOutcomeIgnored(resp) == Ok(<<>>)

\* .send().await?.handle_error().await?; Ok(())
UnitOutcome(resp) ==
    LET r == Received(resp) IN
    IF ~r.ok THEN r ELSE Ok(<<>>)

ResultOf(out) == IF out.ok THEN "Ok" ELSE out.kind
ValueOf(out) == IF out.ok THEN out.v ELSE <<>>

series_by_tvdb_id(c, provider_id) ==
    /\ CanCall(c)
    /\ LET url == UrlJoin(Handle.base_url, SeriesPath) IN
       Start(c, Started("series_by_tvdb_id", 0, url,
                        GetRequest(Val(url), << <<"tvdbId", provider_id>> >>)))

series_by_tvdb_id_response(c) ==
    /\ Ready(c, "series_by_tvdb_id")
    /\ LET out == VecOutcome(Resp(c), "SeriesInfo") IN
       Finish(c, ResultOf(out), ValueOf(out))

tags(c) ==
    /\ CanCall(c)
    /\ LET url == UrlJoin(Handle.base_url, TagPath) IN
       Start(c, Started("tags", 0, url, GetRequest(Val(url), <<>>)))

tags_response(c) ==
    /\ Ready(c, "tags")
    /\ LET out == VecOutcome(Resp(c), "Tag") IN
       Finish(c, ResultOf(out), ValueOf(out))

episodes_by_series(c, series_id) ==
    /\ CanCall(c)
    /\ LET url == UrlJoin(Handle.base_url, EpisodePath) IN
       Start(c, Started("episodes_by_series", series_id, url,
                        GetRequest(Val(url), << <<"seriesId", to_string(series_id)>> >>)))

episodes_by_series_response(c) ==
    /\ Ready(c, "episodes_by_series")
    /\ LET out == VecOutcome(Resp(c), "EpisodeInfo") IN
       Finish(c, ResultOf(out), ValueOf(out))

delete_episode_file(c, episode_file_id) ==
    /\ CanCall(c)
    /\ LET url == JoinItem(Handle.base_url, EpisodeFileDir, episode_file_id) IN
       Start(c, Started("delete_episode_file", episode_file_id, url,
                        DeleteRequest(Val(url))))

delete_episode_file_response(c) ==
    /\ Ready(c, "delete_episode_file")
    /\ LET out == UnitOutcome(Resp(c)) IN
       Finish(c, ResultOf(out), <<>>)

\* The flag left as it was read.
SetUnmonitoredForgotten(episode) == episode

\* episode.monitored = false
SetUnmonitored(episode) == [episode EXCEPT !.monitored = FALSE]

\* unmonitor_episode up to its first await: the URL and the GET.
unmonitor_episode(c, episode_id) ==
    /\ CanCall(c)
    /\ LET url == JoinItem(Handle.base_url, EpisodeDir, episode_id) IN
       Start(c, Started("unmonitor_episode", episode_id, url,
                        GetRequest(Val(url), <<>>)))

\* unmonitor_episode from the GET's response to its second await: decode,
\* flip monitored, PUT the record to the same URL.
unmonitor_episode_get_response(c) ==
    /\ Ready(c, "unmonitor_episode")
    /\ Len(calls[c].sent) = 1
    /\ LET out == EpisodeOutcome(Resp(c)) IN
       IF ~out.ok
       THEN Finish(c, out.kind, <<>>)
       ELSE LET episode == SetUnmonitored(Val(out))
                put == PutJsonRequest(calls[c].url[1], SerializeEpisodeInfo(episode))
            IN  /\ calls' = [calls EXCEPT ![c].pc = "wait",
                                          ![c].episode = <<episode>>,
                                          ![c].resp = <<>>,
                                          ![c].sent = Append(@, Execute(Handle, put))]
                /\ UNCHANGED <<client, newCall, remote, hist, ncalls, nwrites>>

\* unmonitor_episode from the PUT's response to its return.
unmonitor_episode_put_response(c) ==
    /\ Ready(c, "unmonitor_episode")
    /\ Len(calls[c].sent) = 2
    /\ LET out == UnitOutcome(Resp(c)) IN
       Finish(c, ResultOf(out), <<>>)

\* The caller takes the result; its frame is gone.
Return(c) ==
    /\ calls[c].pc = "done"
    /\ calls' = [calls EXCEPT ![c] = IdleFrame]
    /\ hist' = [hist EXCEPT ![c] = NoHistory]
    /\ UNCHANGED <<client, newCall, remote, ncalls, nwrites>>

\* ------------------------------------------------------------------ the service

InFlight(c) == calls[c].pc = "wait"
Req(c) == calls[c].sent[Len(calls[c].sent)]

\* The routes of the API: episode/{id} is the episode resource.
IsEpisodeItem(req) == Len(req.url.path) = 4 /\ req.url.path[3] = EpisodePath
ItemId(req) == CHOOSE i \in EpisodeIds : to_string(i) = req.url.path[4]

Deliver(c, resp) == calls' = [calls EXCEPT ![c].pc = "ready", ![c].resp = <<resp>>]
\* The history of call c once its request in flight is answered resp.
Answered(h, c, resp) ==
    [h EXCEPT ![c].answers = Append(@, resp),
              ![c].pre = IF Req(c).method = "GET" /\ IsEpisodeItem(Req(c))
                         THEN remote[ItemId(Req(c))] ELSE @]

\* Caller d has read episode id and has not returned yet.
Watching(d, id) ==
    /\ calls[d].op = "unmonitor_episode"
    /\ calls[d].id = id
    /\ calls[d].pc # "idle"
    /\ hist[d].answers # <<>>
\* The PUT of caller d has been answered.
PutAnswered(d) ==
    \/ calls[d].pc = "done"
    \/ calls[d].pc = "ready" /\ Len(calls[d].sent) = 2

\* The histories once another writer has stored object o as episode id.
Overwritten(h, writer, id, o) ==
    [d \in Callers |->
        IF d # writer /\ Watching(d, id)
        THEN IF PutAnswered(d) THEN [h[d] EXCEPT !.after = TRUE]
             ELSE [h[d] EXCEPT !.between = <<o>>]
        ELSE h[d]]

\* GET episode/{id}: the resource as it is now, or 404.
ServeEpisodeGet(c) ==
    /\ InFlight(c)
    /\ Req(c).method = "GET"
    /\ IsEpisodeItem(Req(c))
    /\ LET id == ItemId(Req(c))
           resp == IF remote[id] = <<>> THEN Response(404, <<"text">>)
                   ELSE Response(200, <<"obj", remote[id][1]>>)
       IN  /\ Deliver(c, resp)
           /\ hist' = Answered(hist, c, resp)
    /\ UNCHANGED <<client, newCall, remote, ncalls, nwrites>>

\* PUT episode/{id}: the resource is replaced by the body as a whole (there
\* is no partial update, no version check), or 404.
ServeEpisodePut(c) ==
    /\ InFlight(c)
    /\ Req(c).method = "PUT"
    /\ IsEpisodeItem(Req(c))
    /\ LET id == ItemId(Req(c))
           o == Req(c).body[1]
       IN  IF remote[id] = <<>>
           THEN /\ Deliver(c, Response(404, <<"text">>))
                /\ hist' = Answered(hist, c, Response(404, <<"text">>))
                /\ UNCHANGED remote
           ELSE /\ Deliver(c, Response(202, <<"obj", o>>))
                /\ remote' = [remote EXCEPT ![id] = <<o>>]
                /\ hist' = [Answered(Overwritten(hist, c, id, o), c, Response(202, <<"obj", o>>))
                               EXCEPT ![c].post = <<o>>]
    /\ UNCHANGED <<client, newCall, ncalls, nwrites>>

SeriesBodies ==
    { <<"arr", << [title |-> S("Breaking Bad"), id |-> N(42), tags |-> <<"a", <<1, 2>> >>] >> >>,
      <<"arr", << [title |-> S("Breaking Bad")] >> >>,
      <<"text">> }
TagBodies ==
    { <<"arr", << [label |-> S("keep"), id |-> N(1)] >> >>,
      <<"obj", [label |-> S("keep"), id |-> N(1)]>> }
EpisodeBodies ==
    { <<"arr", <<EpisodeFull, EpisodeSeven>> >>,
      <<"arr", <<EpisodeSeven, EpisodeUndecodable>> >> }

CollectionBodies(req) ==
    IF req.url.path[3] = SeriesPath THEN SeriesBodies
    ELSE IF req.url.path[3] = TagPath THEN TagBodies
    ELSE EpisodeBodies

\* GET of a collection: 200 and a body.
ServeCollection(c, body) ==
    /\ InFlight(c)
    /\ Req(c).method = "GET"
    /\ Len(Req(c).url.path) = 3
    /\ body \in CollectionBodies(Req(c))
    /\ Deliver(c, Response(200, body))
    /\ hist' = Answered(hist, c, Response(200, body))
    /\ UNCHANGED <<client, newCall, remote, ncalls, nwrites>>

\* DELETE episodefile/{id}: 200 with no body.
ServeDelete(c) ==
    /\ InFlight(c)
    /\ Req(c).method = "DELETE"
    /\ Deliver(c, Response(200, <<"text">>))
    /\ hist' = Answered(hist, c, Response(200, <<"text">>))
    /\ UNCHANGED <<client, newCall, remote, ncalls, nwrites>>

\* The service answers a request with an error status and changes nothing.
ServeError(c, status) ==
    /\ InFlight(c)
    /\ Deliver(c, Response(status, <<"text">>))
    /\ hist' = Answered(hist, c, Response(status, <<"text">>))
    /\ UNCHANGED <<client, newCall, remote, ncalls, nwrites>>

\* The request does not reach the service.
TransportFailure(c) ==
    /\ InFlight(c)
    /\ Deliver(c, TransportFailed)
    /\ hist' = Answered(hist, c, TransportFailed)
    /\ UNCHANGED <<client, newCall, remote, ncalls, nwrites>>

WriterChanges == { <<"title", S("b")>>, <<"airDate", S("d2")>> }

\* Another client of the service changes one field of an episode.
OtherWriter(id, f, v) ==
    /\ nwrites < MaxOtherWrites
    /\ remote[id] # <<>>
    /\ LET old == remote[id][1]
           o == [k \in DOMAIN old \cup {f} |-> IF k = f THEN v ELSE old[k]]
       IN  /\ o # old
           /\ remote' = [remote EXCEPT ![id] = <<o>>]
           /\ hist' = Overwritten(hist, "other", id, o)
    /\ nwrites' = nwrites + 1
    /\ UNCHANGED <<client, newCall, calls, ncalls>>

\* ------------------------------------------------------------------ specification

Next ==
    \/ \E u \in BaseUrls, k \in ApiKeys, b \in BOOLEAN : New(u, k, b)
    \/ \E c \in Callers, p \in ProviderIds : series_by_tvdb_id(c, p)
    \/ \E c \in Callers : series_by_tvdb_id_response(c)
    \/ \E c \in Callers : tags(c)
    \/ \E c \in Callers : tags_response(c)
    \/ \E c \in Callers, i \in SeriesIds : episodes_by_series(c, i)
    \/ \E c \in Callers : episodes_by_series_response(c)
    \/ \E c \in Callers, i \in FileIds : delete_episode_file(c, i)
    \/ \E c \in Callers : delete_episode_file_response(c)
    \/ \E c \in Callers, i \in EpisodeIds : unmonitor_episode(c, i)
    \/ \E c \in Callers : unmonitor_episode_get_response(c)
    \/ \E c \in Callers : unmonitor_episode_put_response(c)
    \/ \E c \in Callers : Return(c)
    \/ \E c \in Callers : ServeEpisodeGet(c)
    \/ \E c \in Callers : ServeEpisodePut(c)
    \/ \E c \in Callers, body \in SeriesBodies \cup TagBodies \cup EpisodeBodies :
          ServeCollection(c, body)
    \/ \E c \in Callers : ServeDelete(c)
    \/ \E c \in Callers, status \in {500} : ServeError(c, status)
    \/ \E c \in Callers : TransportFailure(c)
    \/ \E i \in EpisodeIds, w \in WriterChanges : OtherWriter(i, w[1], w[2])

Spec == Init /\ [][Next]_vars

\* ------------------------------------------------------------------ properties

Done(c) == calls[c].pc = "done"
Unmonitoring(c) == calls[c].op = "unmonitor_episode"
Methods(c) == [i \in 1..Len(calls[c].sent) |-> calls[c].sent[i].method]
Is2xx(resp) == resp.transport_ok /\ resp.status \in 200..299
\* A response that carries an episode record: 2xx and a body that decodes.
CarriesEpisode(resp) == Is2xx(resp) /\ resp.body[1] = "obj" /\ DeserializeEpisodeInfo(resp.body[2]).ok
\* An optional key that is missing reads as null.
Norm(o) ==
    [k \in DOMAIN o \cup {"episodeFileId"} |->
        IF k = "episodeFileId" /\ ~Has(o, k) THEN Null ELSE o[k]]
\* The value of field f of object o, <<>> when the object has no such field.
Field(o, f) == IF Has(Norm(o), f) THEN <<Norm(o)[f]>> ELSE <<>>
ModelledFields ==
    {"id", "seriesId", "episodeFileId", "title", "seasonNumber", "episodeNumber", "monitored"}

UrlNoScheme == <<"h", "/", "x">>
UrlNoHost == <<"h", "t", "t", "p", ":", "/", "/">>
\* The base URLs of the model that are not absolute URLs.
Malformed(base_url) == base_url \in {UrlNoScheme, UrlNoHost}
IsControl(b) == b < 32 \/ b = 127
HasControlChar(key) == \E i \in 1..Len(key) : IsControl(key[i])
Constructed == newCall.result # "none"
NoRequestYet == \A c \in Callers : calls[c].sent = <<>> /\ hist[c].answers = <<>>

\* C10 (as stated): a malformed base URL always fails with InvalidUrl, an API
\* key containing a control character always fails with InvalidCredential;
\* a failed construction leaves no handle; construction issues no request.
\* (Both "always" cannot hold of a call whose two arguments are both bad, so
\* the second is read with a base URL that is not malformed.)
C10_ConstructionAsStated ==
    /\ Constructed =>
        /\ Malformed(newCall.base_url) => newCall.result = "InvalidUrl"
        /\ (~Malformed(newCall.base_url) /\ HasControlChar(newCall.api_key))
           => newCall.result = "InvalidCredential"
        /\ newCall.result # "Ok" => client = <<>>
    /\ ncalls = 0 => NoRequestYet

\* C10 (amended): a malformed base URL always fails with InvalidUrl; with a
\* base URL that is not malformed, an API key containing a control character
\* other than the horizontal tab always fails with InvalidCredential; a
\* failed construction leaves no handle, and no request has been issued
\* before the first operation is called.
C10_Construction ==
    /\ Constructed =>
        /\ Malformed(newCall.base_url) => newCall.result = "InvalidUrl"
        /\ (/\ ~Malformed(newCall.base_url)
            /\ \E i \in 1..Len(newCall.api_key) :
                  IsControl(newCall.api_key[i]) /\ newCall.api_key[i] # 9)
           => newCall.result = "InvalidCredential"
        /\ newCall.result # "Ok" <=> client = <<>>
    /\ ncalls = 0 => NoRequestYet

\* A construction refused for a control character in its key, the base URL
\* being well-formed.
C10_Witness ==
    /\ newCall.result = "InvalidCredential"
    /\ ~Malformed(newCall.base_url)
    /\ HasControlChar(newCall.api_key)
    /\ client = <<>>

AllSent == UNION { {calls[c].sent[i] : i \in 1..Len(calls[c].sent)} : c \in Callers }

\* C9: the header set built from the API key has exactly one entry, named
\* x-api-key, whose value is the key; it is the handle's default header set
\* from construction on, and every request of every operation carries that
\* header exactly once, with that value.
C9_AuthHeader ==
    /\ client # <<>> =>
        /\ Len(Handle.default_headers) = 1
        /\ Handle.default_headers[1].name = "x-api-key"
        /\ Handle.default_headers[1].value.bytes = newCall.api_key
    /\ \A r \in AllSent :
        /\ HeaderCount(r.headers, "x-api-key") = 1
        /\ \A i \in 1..Len(r.headers) :
              r.headers[i].name = "x-api-key" => r.headers[i].value.bytes = newCall.api_key

\* A call has sent its GET and its PUT, the PUT with a header of its own.
C9_Witness ==
    \E c \in Callers :
        /\ Methods(c) = <<"GET", "PUT">>
        /\ Len(calls[c].sent[2].headers) = 2
        /\ HeaderCount(calls[c].sent[1].headers, "x-api-key") = 1

SingleRequestOps ==
    {"series_by_tvdb_id", "tags", "episodes_by_series", "delete_episode_file"}
MethodOf(op) == IF op = "delete_episode_file" THEN "DELETE" ELSE "GET"
\* The call has passed its first lines (it waits for a response, has one, or has returned).
Called(c) == calls[c].pc # "idle"

\* The order of the requests of unmonitor_episode: a GET, then at most one
\* PUT, which is sent only once the GET's response is there and has decoded;
\* a call that succeeded sent both.
UnmonitorOrder(c) ==
    /\ Methods(c) \in {<<>>, <<"GET">>, <<"GET", "PUT">>}
    /\ Len(calls[c].sent) = 2 =>
          Len(hist[c].answers) >= 1 /\ CarriesEpisode(hist[c].answers[1])
    /\ (Done(c) /\ calls[c].result = "Ok") => Len(calls[c].sent) = 2
    /\ Len(hist[c].answers) <= Len(calls[c].sent)

BodyDecodes(op, body) ==
    CASE op = "series_by_tvdb_id" ->
            body[1] = "arr" /\ \A i \in 1..Len(body[2]) : DeserializeSeriesInfo(body[2][i]).ok
      [] op = "tags" ->
            body[1] = "arr" /\ \A i \in 1..Len(body[2]) : DeserializeTag(body[2][i]).ok
      [] op = "episodes_by_series" ->
            body[1] = "arr" /\ \A i \in 1..Len(body[2]) : DeserializeEpisodeInfo(body[2][i]).ok
      [] OTHER -> TRUE

\* C8: an operation returns success only if every exchange it issued
\* completed with a 2xx status and, where a body is decoded, the body decoded
\* into the expected records (as many as the body holds: nothing is
\* defaulted); unmonitor_episode only if both its GET and its PUT did.
C8_NoErrorDiscarded ==
    \A c \in Callers :
        (Done(c) /\ calls[c].result = "Ok") =>
            /\ Len(calls[c].sent) >= 1
            /\ Len(hist[c].answers) = Len(calls[c].sent)
            /\ \A i \in 1..Len(hist[c].answers) : Is2xx(hist[c].answers[i])
            /\ calls[c].op \in SingleRequestOps =>
                  /\ BodyDecodes(calls[c].op, hist[c].answers[1].body)
                  /\ calls[c].op # "delete_episode_file" =>
                        Len(calls[c].value[1]) = Len(hist[c].answers[1].body[2])
            /\ Unmonitoring(c) =>
                  /\ Len(calls[c].sent) = 2
                  /\ CarriesEpisode(hist[c].answers[1])

\* A listing has returned an error for a 200 whose body did not decode, and
\* another has returned success with the decoded records.
C8_Witness ==
    \E c, d \in Callers :
        /\ Done(c) /\ calls[c].op = "series_by_tvdb_id" /\ calls[c].result = "DecodeError"
        /\ Is2xx(hist[c].answers[1])
        /\ Done(d) /\ calls[d].op = "episodes_by_series" /\ calls[d].result = "Ok"
        /\ Len(calls[d].value[1]) = 2

\* The call's GET has been answered, and not with an episode record.
GetFailed(c) ==
    /\ Unmonitoring(c)
    /\ Len(hist[c].answers) >= 1
    /\ ~CarriesEpisode(hist[c].answers[1])
\* The call's PUT has been answered, and not with a 2xx status.
PutFailed(c) ==
    /\ Unmonitoring(c)
    /\ Len(hist[c].answers) = 2
    /\ ~Is2xx(hist[c].answers[2])
\* No other writer has stored the episode since the call's GET was served.
Undisturbed(c) == hist[c].between = <<>> /\ ~hist[c].after

\* C1: if the GET of unmonitor_episode fails (transport failure, a status
\* outside 2xx, a body that does not decode into an episode record), the
\* call never issues a PUT, it returns an error, and it has stored nothing
\* in the service.
C1_GetFailureNoPut ==
    \A c \in Callers :
        GetFailed(c) =>
            /\ Methods(c) = <<"GET">>
            /\ hist[c].post = <<>>
            /\ Done(c) => calls[c].result # "Ok"
            /\ Undisturbed(c) => remote[calls[c].id] = hist[c].pre

\* Two calls have returned an error after a failed GET: one was answered
\* 404, the other 200 with a record that does not decode.
C1_Witness ==
    \E c, d \in Callers :
        /\ Done(c) /\ GetFailed(c) /\ hist[c].answers[1].status = 404
        /\ calls[c].result = "HttpStatusError"
        /\ Done(d) /\ GetFailed(d) /\ hist[d].answers[1].status = 200
        /\ calls[d].result = "DecodeError"

\* C2: if the PUT of unmonitor_episode fails, the call reports failure, it
\* has issued no request after the PUT, and the episode in the service is
\* the one its GET was served (no other writer having stored it since).
C2_PutFailureNoChange ==
    \A c \in Callers :
        PutFailed(c) =>
            /\ Methods(c) = <<"GET", "PUT">>
            /\ hist[c].post = <<>>
            /\ Done(c) => calls[c].result \in {"HttpStatusError", "TransportError"}
            /\ Undisturbed(c) => remote[calls[c].id] = hist[c].pre

\* A call has returned an error after its PUT was answered 500, and the
\* episode is still monitored, as the GET read it.
C2_Witness ==
    \E c \in Callers :
        /\ Done(c) /\ PutFailed(c) /\ hist[c].answers[2].status = 500
        /\ calls[c].result = "HttpStatusError"
        /\ Undisturbed(c)
        /\ remote[calls[c].id] = hist[c].pre
        /\ hist[c].pre[1].monitored = B(TRUE)

\* C3: for every record with monitored = true that the GET returns, the body
\* of the PUT has monitored = false and each of the other six fields equal
\* to the value read (a missing optional file id reading as null), and the
\* PUT goes to the URL of the GET.
C3_RoundTrip ==
    \A c \in Callers :
        (/\ Unmonitoring(c)
         /\ Len(calls[c].sent) = 2
         /\ hist[c].answers[1].body[2].monitored = B(TRUE)) =>
            LET read == hist[c].answers[1].body[2]
                put == calls[c].sent[2]
            IN  /\ put.method = "PUT"
                /\ put.url = calls[c].sent[1].url
                /\ put.query = <<>>
                /\ DOMAIN put.body[1] = ModelledFields
                /\ put.body[1].monitored = B(FALSE)
                /\ \A f \in ModelledFields \ {"monitored"} :
                      <<put.body[1][f]>> = Field(read, f)

\* A call has succeeded on a record that was monitored and had a file id.
C3_Witness ==
    \E c \in Callers :
        /\ Done(c) /\ Unmonitoring(c) /\ calls[c].result = "Ok"
        /\ hist[c].pre[1].monitored = B(TRUE)
        /\ Field(hist[c].pre[1], "episodeFileId") = <<N(7)>>
        /\ hist[c].post[1].monitored = B(FALSE)

\* C4: after a successful unmonitor_episode with no concurrent writer, the
\* episode in the service differs from the one the GET was served only in
\* monitored (now false), whatever fields the record carries.
C4_WriteBackKeepsResource ==
    \A c \in Callers :
        (/\ Done(c) /\ Unmonitoring(c) /\ calls[c].result = "Ok"
         /\ hist[c].between = <<>>) =>
            hist[c].post[1] = [Norm(hist[c].pre[1]) EXCEPT !.monitored = B(FALSE)]

\* The same, of the records that carry the seven fields and no other.
C4_SevenFieldsKept ==
    \A c \in Callers :
        (/\ Done(c) /\ Unmonitoring(c) /\ calls[c].result = "Ok"
         /\ hist[c].between = <<>>
         /\ DOMAIN hist[c].pre[1] \subseteq ModelledFields) =>
            hist[c].post[1] = [Norm(hist[c].pre[1]) EXCEPT !.monitored = B(FALSE)]

\* A call has been served a record that decodes and has been answered by
\* nothing but 2xx.
Unfailed(c) ==
    /\ Len(hist[c].answers) = Len(calls[c].sent)
    /\ \A i \in 1..Len(hist[c].answers) : Is2xx(hist[c].answers[i])
    /\ Len(hist[c].answers) >= 1
    /\ CarriesEpisode(hist[c].answers[1])

\* C5: two unmonitor_episode calls on the same episode, the service failing
\* neither, in whatever order their GETs and PUTs were served: both return
\* success and the episode ends with monitored = false.
C5_RaceEndsUnmonitored ==
    \A c, d \in Callers :
        (/\ c # d
         /\ Done(c) /\ Unmonitoring(c) /\ Unfailed(c)
         /\ Done(d) /\ Unmonitoring(d) /\ Unfailed(d)
         /\ calls[c].id = calls[d].id) =>
            /\ calls[c].result = "Ok" /\ calls[d].result = "Ok"
            /\ remote[calls[c].id][1].monitored = B(FALSE)

\* Both calls were served the same monitored record before either PUT was
\* stored, and both have returned.
C5_Witness ==
    \E c, d \in Callers :
        /\ c # d
        /\ Done(c) /\ Unmonitoring(c) /\ calls[c].result = "Ok"
        /\ Done(d) /\ Unmonitoring(d) /\ calls[d].result = "Ok"
        /\ calls[c].id = calls[d].id
        /\ hist[c].pre = hist[d].pre
        /\ hist[c].pre[1].monitored = B(TRUE)
        /\ remote[calls[c].id][1].monitored = B(FALSE)

\* The fields of the episode that another writer changed between the call's
\* GET and its PUT.
ChangedBetween(c) ==
    {f \in (DOMAIN hist[c].between[1] \cup DOMAIN hist[c].pre[1]) \ {"monitored"} :
        Field(hist[c].between[1], f) # Field(hist[c].pre[1], f)}

\* C6: if another writer changes any other field of the episode after the
\* call's GET was served and before its PUT is stored, then once the PUT is
\* stored that field holds the value read at the GET, and the call returns
\* success.
C6_LostUpdate ==
    \A c \in Callers :
        (Unmonitoring(c) /\ hist[c].post # <<>> /\ hist[c].between # <<>>) =>
            /\ \A f \in ChangedBetween(c) :
                  Field(hist[c].post[1], f) = Field(hist[c].pre[1], f)
            /\ Done(c) => calls[c].result = "Ok"

\* The same, of the seven fields the client models.
C6_ModelledFieldsLost ==
    \A c \in Callers :
        (Unmonitoring(c) /\ hist[c].post # <<>> /\ hist[c].between # <<>>) =>
            /\ \A f \in ChangedBetween(c) \cap ModelledFields :
                  Field(hist[c].post[1], f) = Field(hist[c].pre[1], f)
            /\ Done(c) => calls[c].result = "Ok"

=============================================================================
